---- MODULE Spec2Model ----
(***************************************************************************)
(* Model of saito-rust's unspent-output ledger (src/src/shashmap.rs) and   *)
(* of its transaction record (src/src/transaction.rs).                     *)
(*                                                                         *)
(* Five specifications share the module:                                   *)
(*   Spec             the ledger: a HashMap<Slip, i64> driven by the seven *)
(*                    public methods of Shashmap;                          *)
(*   SpecCoordinator  the ledger when block ids are stored only by a       *)
(*                    spend_transaction made with a lookup of its inputs;  *)
(*   SpecBlocks       transactions applied to the ledger and rolled back,  *)
(*                    last first;                                          *)
(*   SpecTx           the transaction record: construction, the mutators,  *)
(*                    sign and validate;                                   *)
(*   SpecEnc          the signature encoding of a record constructed with  *)
(*                    any fields.                                          *)
(***************************************************************************)
EXTENDS Integers, Sequences, FiniteSets, TLC

VARIABLES
    utxo_hashmap,   \* Shashmap.utxo_hashmap: a function Slip -> i64 on the keys present
    before,         \* the map as it was when the last ledger call was made
    last,           \* the last ledger call: its name, arguments and return value
    seq,            \* how far the run insert_new_transaction(t); spend_transaction(t, b);
                    \* unspend_transaction(t) on one transaction t has got (0..3)
    touched,        \* every slip that was a key or in a transaction of a mutating call
    tx,             \* the transaction record
    signed,         \* the record as it was right after the last sign, or NoRecord
    signed_key,     \* the private key of that sign, or NoKey
    result,         \* {r} when the last call was validate and returned r, else NoResult
    valid_slips,    \* the slips whose own validity check passes (fixed in a run)
    applied,        \* the transactions applied and not rolled back, oldest first, each
                    \* with the ledger as it was before and after it was applied
    origin          \* the ledger as it was before the first of them was applied

ledgerVars == <<utxo_hashmap, before, last, seq, touched>>
txVars == <<tx, signed, signed_key, result, valid_slips>>
blockVars == <<applied, origin>>
vars == <<utxo_hashmap, before, last, seq, touched, tx, signed, signed_key, result, valid_slips,
          applied, origin>>

----------------------------------------------------------------------------
(* Bounds *)

\* Width of the block-id integers in the model: u64/i64 scaled down to IntBits bits.
IntBits == 8

\* Most slips (inputs plus outputs) of a transaction handed to the ledger.
MaxSlips == 3

\* Most slips (inputs plus outputs) of a transaction record in SpecTx.
MaxTxSlips == 2

\* Most slips (inputs plus outputs) of a transaction record in SpecEnc.
MaxEncSlips == 3

\* Most slips (inputs plus outputs) of the transactions applied and not rolled
\* back in SpecBlocks, taken together.
MaxBlockSlips == 4

----------------------------------------------------------------------------
(* Slips, keys and the crypto primitives: crate::slip and crate::crypto *)

PublicKeys == {2, 3}

PrivateKeys == {12, 13}

\* The private keys sign is called with: one key pair signs, the other public key
\* is a key that did not. Which slips are valid ranges over every subset, so the
\* runs with the other key pair signing are these with the slips renamed.
SigningKeys == {12}

\* The public key of a private key (a key pair).
PublicKeyOf(sk) == sk - 10

\* A Slip: a value with structural equality, used as the map's key.
Slips == [publickey : PublicKeys, amount : {1}]

\* Slip::get_publickey
get_publickey(slip) == slip.publickey

\* Slip::serialize_for_signature: a fixed-length encoding of the slip's fields.
slip_serialize_for_signature(slip) == <<slip.publickey, slip.amount>>

\* Slip::validate: the slip's own validity check, an unknown predicate of the slip.
slip_validate(slip) == slip \in valid_slips

----------------------------------------------------------------------------
(* Transactions *)

\* [0; 64], the signature of a record that was never signed
ZeroSignature == [hash |-> <<-1>>, key |-> 0]

\* [0; 32], the cached hash of a record that was never signed
ZeroHash == <<-1>>

\* [0; 33], the placeholder public key
ZeroPublicKey == 0

RECURSIVE SeqsUpTo(_, _)
SeqsUpTo(S, n) ==
    IF n = 0 THEN {<<>>}
    ELSE LET shorter == SeqsUpTo(S, n - 1)
         IN  shorter \cup {Append(q, x) : q \in shorter, x \in S}

\* TransactionCore::new followed by Transaction::new
TransactionNew(timestamp, inputs, outputs, message, transaction_type, signature) ==
    [timestamp |-> timestamp, inputs |-> inputs, outputs |-> outputs,
     message |-> message, transaction_type |-> transaction_type,
     signature |-> signature, hash_for_signature |-> ZeroHash]

\* The transactions handed to the ledger: only inputs and outputs matter to it.
LedgerTxs ==
    {TransactionNew(1000, io[1], io[2], <<>>, "Normal", ZeroSignature) :
        io \in {p \in SeqsUpTo(Slips, MaxSlips) \X SeqsUpTo(Slips, MaxSlips) :
                    Len(p[1]) + Len(p[2]) <= MaxSlips}}

NoTx == TransactionNew(0, <<>>, <<>>, <<>>, "Normal", ZeroSignature)

\* No record was signed yet, no key signed, validate was not called.
NoRecord == [NoTx EXCEPT !.timestamp = -1]
NoKey == ZeroSignature.key
NoResult == {}

Range(q) == {q[k] : k \in 1..Len(q)}

----------------------------------------------------------------------------
(* The ledger: src/src/shashmap.rs *)

Pow2(n) == 2 ^ n

\* `id as i64`: the u64 reinterpreted as two's complement
AsI64(id) == IF id >= Pow2(IntBits - 1) THEN id - Pow2(IntBits) ELSE id

\* The block ids the callers pass: 0, i64::MAX and u64::MAX at the model's width.
BlockIds == {0, Pow2(IntBits - 1) - 1, Pow2(IntBits) - 1}

\* Option<&i64>
None == {}
Some(v) == {v}

\* HashMap::insert
MapInsert(m, k, v) == [x \in (DOMAIN m) \cup {k} |-> IF x = k THEN v ELSE m[x]]

\* HashMap::remove
MapRemove(m, k) == [x \in (DOMAIN m) \ {k} |-> m[x]]

\* for slip in slips.iter() { map.insert(*slip, v); }
RECURSIVE InsertEach(_, _, _)
InsertEach(m, slips, v) ==
    IF slips = <<>> THEN m
    ELSE InsertEach(MapInsert(m, Head(slips), v), Tail(slips), v)

\* for slip in slips.iter() { map.remove(&slip); }
RECURSIVE RemoveEach(_, _)
RemoveEach(m, slips) ==
    IF slips = <<>> THEN m
    ELSE RemoveEach(MapRemove(m, Head(slips)), Tail(slips))

\* Shashmap::new
new == <<>>

\* Shashmap::insert
insert(m, slip, id) == MapInsert(m, slip, AsI64(id))

\* A slip that is already a key keeps its value (entry().or_insert(-1)).
insert_new_transaction_keeps_existing(m, t) ==
    LET fresh == InsertEach(m, t.outputs, -1)
    IN  [x \in DOMAIN fresh |-> IF x \in DOMAIN m THEN m[x] ELSE fresh[x]]

\* Shashmap::insert_new_transaction
insert_new_transaction(m, t) == InsertEach(m, t.outputs, -1)

\* The outputs are given the block id as well.
spend_transaction_spends_outputs(m, t, block_id) ==
    InsertEach(InsertEach(m, t.inputs, AsI64(block_id)), t.outputs, AsI64(block_id))

\* Shashmap::spend_transaction
spend_transaction(m, t, block_id) == InsertEach(m, t.inputs, AsI64(block_id))

\* The second loop resets the outputs to -1 instead of removing them.
unspend_transaction_keeps_outputs(m, t) ==
    InsertEach(InsertEach(m, t.inputs, -1), t.outputs, -1)

\* The first loop is missing: the inputs keep the block id they were spent at.
unspend_transaction_removes_outputs_only(m, t) == RemoveEach(m, t.outputs)

\* The inputs are removed as well, not reset to -1.
unspend_transaction_removes_inputs(m, t) == RemoveEach(RemoveEach(m, t.inputs), t.outputs)

\* Shashmap::unspend_transaction
unspend_transaction(m, t) == RemoveEach(InsertEach(m, t.inputs, -1), t.outputs)

\* Shashmap::spend_slip
spend_slip(m, slip, bid) == MapInsert(m, slip, AsI64(bid))

\* Only a slip that is already a key is reset (get_mut(&slip) then assign).
unspend_slip_if_present(m, slip) == IF slip \in DOMAIN m THEN MapInsert(m, slip, -1) ELSE m

\* Shashmap::unspend_slip
unspend_slip(m, slip) == MapInsert(m, slip, -1)

\* A missing key is reported as unspent (get(slip).or(Some(&-1))).
slip_block_id_or_unspent(m, slip) == IF slip \in DOMAIN m THEN Some(m[slip]) ELSE Some(-1)

\* Every slip is reported as unspent.
slip_block_id_always_unspent(m, slip) == Some(-1)

\* Shashmap::slip_block_id
slip_block_id(m, slip) == IF slip \in DOMAIN m THEN Some(m[slip]) ELSE None

NoSlip == [publickey |-> 0, amount |-> 0]

Call(op, t, slip, id, ret) == [op |-> op, tx |-> t, slip |-> slip, id |-> id, ret |-> ret]

LedgerInit ==
    /\ utxo_hashmap = new
    /\ before = new
    /\ last = Call("new", NoTx, NoSlip, 0, None)
    /\ seq = 0
    /\ touched = {}

Insert ==
    \E slip \in Slips, id \in BlockIds :
        /\ utxo_hashmap' = insert(utxo_hashmap, slip, id)
        /\ before' = utxo_hashmap
        /\ last' = Call("insert", NoTx, slip, id, None)
        /\ seq' = 0
        /\ touched' = touched \cup {slip}

InsertNewTransaction ==
    \E t \in LedgerTxs :
        /\ utxo_hashmap' = insert_new_transaction(utxo_hashmap, t)
        /\ before' = utxo_hashmap
        /\ last' = Call("insert_new_transaction", t, NoSlip, 0, None)
        /\ seq' = 1
        /\ touched' = touched \cup Range(t.inputs) \cup Range(t.outputs)

SpendTransaction ==
    \E t \in LedgerTxs, block_id \in BlockIds :
        /\ utxo_hashmap' = spend_transaction(utxo_hashmap, t, block_id)
        /\ before' = utxo_hashmap
        /\ last' = Call("spend_transaction", t, NoSlip, block_id, None)
        /\ seq' = IF seq = 1 /\ last.tx = t THEN 2 ELSE 0
        /\ touched' = touched \cup Range(t.inputs) \cup Range(t.outputs)

UnspendTransaction ==
    \E t \in LedgerTxs :
        /\ utxo_hashmap' = unspend_transaction(utxo_hashmap, t)
        /\ before' = utxo_hashmap
        /\ last' = Call("unspend_transaction", t, NoSlip, 0, None)
        /\ seq' = IF seq = 2 /\ last.tx = t THEN 3 ELSE 0
        /\ touched' = touched \cup Range(t.inputs) \cup Range(t.outputs)

SpendSlip ==
    \E slip \in Slips, bid \in BlockIds :
        /\ utxo_hashmap' = spend_slip(utxo_hashmap, slip, bid)
        /\ before' = utxo_hashmap
        /\ last' = Call("spend_slip", NoTx, slip, bid, None)
        /\ seq' = 0
        /\ touched' = touched \cup {slip}

UnspendSlip ==
    \E slip \in Slips :
        /\ utxo_hashmap' = unspend_slip(utxo_hashmap, slip)
        /\ before' = utxo_hashmap
        /\ last' = Call("unspend_slip", NoTx, slip, 0, None)
        /\ seq' = 0
        /\ touched' = touched \cup {slip}

SlipBlockId ==
    \E slip \in Slips :
        /\ last' = Call("slip_block_id", NoTx, slip, 0, slip_block_id(utxo_hashmap, slip))
        /\ before' = utxo_hashmap
        /\ seq' = 0
        /\ UNCHANGED <<utxo_hashmap, touched>>

TxIdle ==
    /\ tx = NoTx
    /\ signed = NoRecord
    /\ signed_key = NoKey
    /\ result = NoResult
    /\ valid_slips = Slips

\* No transaction was applied.
BlocksIdle ==
    /\ applied = <<>>
    /\ origin = new

Init == LedgerInit /\ TxIdle /\ BlocksIdle

Next ==
    \/ Insert /\ UNCHANGED txVars /\ UNCHANGED blockVars
    \/ InsertNewTransaction /\ UNCHANGED txVars /\ UNCHANGED blockVars
    \/ SpendTransaction /\ UNCHANGED txVars /\ UNCHANGED blockVars
    \/ UnspendTransaction /\ UNCHANGED txVars /\ UNCHANGED blockVars
    \/ SpendSlip /\ UNCHANGED txVars /\ UNCHANGED blockVars
    \/ UnspendSlip /\ UNCHANGED txVars /\ UNCHANGED blockVars
    \/ SlipBlockId /\ UNCHANGED txVars /\ UNCHANGED blockVars

Spec == Init /\ [][Next]_vars

----------------------------------------------------------------------------
(* The transaction record: src/src/transaction.rs *)

Timestamps == {1000, 1001}

\* "" and "hi"
Messages == {<<>>, <<104, 105>>}

TransactionTypes == {"Normal"}

\* `transaction_type as u32`
TypeOrdinal(transaction_type) == CASE transaction_type = "Normal" -> 0

\* u64::to_be_bytes (len = 8) and u32::to_be_bytes (len = 4)
RECURSIVE to_be_bytes(_, _)
to_be_bytes(n, len) ==
    IF len = 0 THEN <<>> ELSE Append(to_be_bytes(n \div 256, len - 1), n % 256)

\* for slip in slips { vbytes.extend(&slip.serialize_for_signature()); }
RECURSIVE ExtendEach(_, _)
ExtendEach(vbytes, slips) ==
    IF slips = <<>> THEN vbytes
    ELSE ExtendEach(vbytes \o slip_serialize_for_signature(Head(slips)), Tail(slips))

\* The outputs are encoded before the inputs.
serialize_for_signature_outputs_first(t) ==
    LET v1 == to_be_bytes(t.timestamp, 8)
        v2 == ExtendEach(v1, t.outputs)
        v3 == ExtendEach(v2, t.inputs)
        v4 == v3 \o to_be_bytes(TypeOrdinal(t.transaction_type), 4)
    IN  v4 \o t.message

\* The inputs are encoded in the order of their public keys, not in list order.
serialize_for_signature_sorted_inputs(t) ==
    LET least == CHOOSE pk \in PublicKeys : \A other \in PublicKeys : pk <= other
        IsLeast(slip) == slip.publickey = least
        IsNotLeast(slip) == slip.publickey # least
        v1 == to_be_bytes(t.timestamp, 8)
        v2 == ExtendEach(v1, SelectSeq(t.inputs, IsLeast) \o SelectSeq(t.inputs, IsNotLeast))
        v3 == ExtendEach(v2, t.outputs)
        v4 == v3 \o to_be_bytes(TypeOrdinal(t.transaction_type), 4)
    IN  v4 \o t.message

\* Transaction::serialize_for_signature
serialize_for_signature(t) ==
    LET v1 == to_be_bytes(t.timestamp, 8)
        v2 == ExtendEach(v1, t.inputs)
        v3 == ExtendEach(v2, t.outputs)
        v4 == v3 \o to_be_bytes(TypeOrdinal(t.transaction_type), 4)
    IN  v4 \o t.message

\* crypto::hash: a collision-free digest, which stands for the bytes hashed.
hash(bytes) == <<Len(bytes)>> \o bytes

\* crypto::sign: a signature binds the digest signed and the key that signed it.
sign(digest, privatekey) == [hash |-> digest, key |-> privatekey]

\* crypto::verify: true for a signature made over msg by the private key of publickey.
verify(msg, sig, publickey) ==
    /\ publickey \in PublicKeys
    /\ sig.key \in PrivateKeys
    /\ PublicKeyOf(sig.key) = publickey
    /\ sig.hash = msg

\* Transaction::add_input
add_input(t, input_slip) == [t EXCEPT !.inputs = Append(@, input_slip)]

\* Transaction::add_output
add_output(t, output_slip) == [t EXCEPT !.outputs = Append(@, output_slip)]

\* Transaction::set_timestamp
set_timestamp(t, timestamp) == [t EXCEPT !.timestamp = timestamp]

\* Transaction::set_transaction_type
set_transaction_type(t, transaction_type) == [t EXCEPT !.transaction_type = transaction_type]

\* Transaction::set_message
set_message(t, message) == [t EXCEPT !.message = message]

\* Transaction::set_signature
set_signature(t, sig) == [t EXCEPT !.signature = sig]

\* Transaction::set_hash_for_signature
set_hash_for_signature(t, h) == [t EXCEPT !.hash_for_signature = h]

\* The signature is made over the cached hash as it is before the call.
transaction_sign_cached_hash(t, privatekey) ==
    LET hash_for_signature == hash(serialize_for_signature(t))
    IN  set_hash_for_signature(
            set_signature(t, sign(t.hash_for_signature, privatekey)),
            hash_for_signature)

\* The record is stamped with the zero timestamp before it is signed.
transaction_sign_stamps_time(t, privatekey) ==
    LET stamped == set_timestamp(t, 0)
        hash_for_signature == hash(serialize_for_signature(stamped))
    IN  set_hash_for_signature(
            set_signature(stamped, sign(hash_for_signature, privatekey)),
            hash_for_signature)

\* Transaction::sign
transaction_sign(t, privatekey) ==
    LET hash_for_signature == hash(serialize_for_signature(t))
    IN  set_hash_for_signature(
            set_signature(t, sign(hash_for_signature, privatekey)),
            hash_for_signature)

\* What a call of validate did: the value returned, the number of inputs whose own
\* validate was called, and whether it panicked (then nothing is returned).
Returned(ret, consulted) == [ret |-> ret, consulted |-> consulted, panicked |-> FALSE]

\* The loop returns true after the first input that passes.
ValidateFirstInput(inputs, consulted) ==
    IF inputs = <<>> THEN Returned(TRUE, consulted)
    ELSE Returned(slip_validate(Head(inputs)), consulted + 1)

\* for input in &self.core.inputs { if !input.validate() { return false; } } return true;
RECURSIVE ValidateInputs(_, _)
ValidateInputs(inputs, consulted) ==
    IF inputs = <<>> THEN Returned(TRUE, consulted)
    ELSE IF ~slip_validate(Head(inputs)) THEN Returned(FALSE, consulted + 1)
    ELSE ValidateInputs(Tail(inputs), consulted + 1)

\* self.core.inputs[0].get_publickey(): indexing an empty Vec panics.
FirstPublicKey(inputs) ==
    IF Len(inputs) = 0
    THEN [panicked |-> TRUE, key |-> ZeroPublicKey]
    ELSE [panicked |-> FALSE, key |-> get_publickey(inputs[1])]

\* let mut publickey = [0; 33];
\* if self.core.inputs.len() > 0 { publickey = self.core.inputs[0].get_publickey(); }
VerifyingKey(t) ==
    IF Len(t.inputs) > 0
    THEN FirstPublicKey(t.inputs)
    ELSE [panicked |-> FALSE, key |-> ZeroPublicKey]

Panicked == [ret |-> FALSE, consulted |-> 0, panicked |-> TRUE]

\* The message verified is the cached hash, not a hash of the current fields.
validate_cached_hash(t) ==
    IF ~verify(t.hash_for_signature, t.signature, VerifyingKey(t).key)
    THEN Returned(FALSE, 0)
    ELSE ValidateInputs(t.inputs, 0)

\* The inputs are never checked.
validate_signature_only(t) ==
    Returned(verify(hash(serialize_for_signature(t)), t.signature, VerifyingKey(t).key), 0)

\* Transaction::validate
validate(t) ==
    LET msg == hash(serialize_for_signature(t))
        sig == t.signature
        publickey == VerifyingKey(t)
    IN  IF publickey.panicked THEN Panicked
        ELSE IF ~verify(msg, sig, publickey.key) THEN Returned(FALSE, 0)
        ELSE ValidateInputs(t.inputs, 0)

\* A record is constructed (Transaction::default, or Transaction::new on a core
\* with the fields given): never signed, the cached hash zero. Some slip is
\* valid: with none, validate is false on every record.
TxInit ==
    /\ \E timestamp \in Timestamps, message \in Messages :
           tx = TransactionNew(timestamp, <<>>, <<>>, message, "Normal", ZeroSignature)
    /\ signed = NoRecord
    /\ signed_key = NoKey
    /\ result = NoResult
    /\ valid_slips \in (SUBSET Slips) \ {{}}

\* A second record is built with the fields of the first and empty lists
\* (TransactionCore::new, then Transaction::new; its cached hash is zero); the
\* setters, add_input and add_output then give it any content.
TransactionCoreNew ==
    /\ tx' = TransactionNew(tx.timestamp, <<>>, <<>>, tx.message, tx.transaction_type,
                            tx.signature)
    /\ result' = NoResult
    /\ UNCHANGED <<signed, signed_key, valid_slips>>

AddInput ==
    \E slip \in Slips :
        /\ Len(tx.inputs) + Len(tx.outputs) < MaxTxSlips
        /\ tx' = add_input(tx, slip)
        /\ result' = NoResult
        /\ UNCHANGED <<signed, signed_key, valid_slips>>

AddOutput ==
    \E slip \in Slips :
        /\ Len(tx.inputs) + Len(tx.outputs) < MaxTxSlips
        /\ tx' = add_output(tx, slip)
        /\ result' = NoResult
        /\ UNCHANGED <<signed, signed_key, valid_slips>>

SetTimestamp ==
    \E timestamp \in Timestamps :
        /\ tx' = set_timestamp(tx, timestamp)
        /\ result' = NoResult
        /\ UNCHANGED <<signed, signed_key, valid_slips>>

SetTransactionType ==
    \E transaction_type \in TransactionTypes :
        /\ tx' = set_transaction_type(tx, transaction_type)
        /\ result' = NoResult
        /\ UNCHANGED <<signed, signed_key, valid_slips>>

SetMessage ==
    \E message \in Messages :
        /\ tx' = set_message(tx, message)
        /\ result' = NoResult
        /\ UNCHANGED <<signed, signed_key, valid_slips>>

SetSignature ==
    \E sig \in {ZeroSignature, signed.signature} :
        /\ tx' = set_signature(tx, sig)
        /\ result' = NoResult
        /\ UNCHANGED <<signed, signed_key, valid_slips>>

SetHashForSignature ==
    \E h \in {ZeroHash} :
        /\ tx' = set_hash_for_signature(tx, h)
        /\ result' = NoResult
        /\ UNCHANGED <<signed, signed_key, valid_slips>>

Sign ==
    \E privatekey \in SigningKeys :
        /\ tx' = transaction_sign(tx, privatekey)
        /\ signed' = tx'
        /\ signed_key' = privatekey
        /\ result' = NoResult
        /\ UNCHANGED valid_slips

Validate ==
    /\ result' = {validate(tx).ret}
    /\ UNCHANGED <<tx, signed, signed_key, valid_slips>>

LedgerIdle ==
    /\ utxo_hashmap = new
    /\ before = new
    /\ last = Call("new", NoTx, NoSlip, 0, None)
    /\ seq = 0
    /\ touched = {}

InitTx == TxInit /\ LedgerIdle /\ BlocksIdle

NextTx ==
    \/ TransactionCoreNew /\ UNCHANGED ledgerVars /\ UNCHANGED blockVars
    \/ AddInput /\ UNCHANGED ledgerVars /\ UNCHANGED blockVars
    \/ AddOutput /\ UNCHANGED ledgerVars /\ UNCHANGED blockVars
    \/ SetTimestamp /\ UNCHANGED ledgerVars /\ UNCHANGED blockVars
    \/ SetTransactionType /\ UNCHANGED ledgerVars /\ UNCHANGED blockVars
    \/ SetMessage /\ UNCHANGED ledgerVars /\ UNCHANGED blockVars
    \/ SetSignature /\ UNCHANGED ledgerVars /\ UNCHANGED blockVars
    \/ SetHashForSignature /\ UNCHANGED ledgerVars /\ UNCHANGED blockVars
    \/ Sign /\ UNCHANGED ledgerVars /\ UNCHANGED blockVars
    \/ Validate /\ UNCHANGED ledgerVars /\ UNCHANGED blockVars

SpecTx == InitTx /\ [][NextTx]_vars

----------------------------------------------------------------------------
(* The signature encoding of a record: a record is constructed with any fields,
   then signed, its signature and cached hash set, and validated *)

\* TransactionCore::new with the fields given, then Transaction::new.
EncInit ==
    /\ \E timestamp \in Timestamps, message \in Messages,
          io \in {p \in SeqsUpTo(Slips, MaxEncSlips) \X SeqsUpTo(Slips, MaxEncSlips) :
                      Len(p[1]) + Len(p[2]) <= MaxEncSlips} :
           tx = TransactionNew(timestamp, io[1], io[2], message, "Normal", ZeroSignature)
    /\ signed = NoRecord
    /\ signed_key = NoKey
    /\ result = NoResult
    /\ valid_slips = Slips

InitEnc == EncInit /\ LedgerIdle /\ BlocksIdle

NextEnc ==
    \/ SetSignature /\ UNCHANGED ledgerVars /\ UNCHANGED blockVars
    \/ SetHashForSignature /\ UNCHANGED ledgerVars /\ UNCHANGED blockVars
    \/ Sign /\ UNCHANGED ledgerVars /\ UNCHANGED blockVars
    \/ Validate /\ UNCHANGED ledgerVars /\ UNCHANGED blockVars

SpecEnc == InitEnc /\ [][NextEnc]_vars

----------------------------------------------------------------------------
(* Blocks applied and rolled back: the caller of the ledger applies a transaction
   by insert_new_transaction then spend_transaction, on a ledger where its inputs
   are unspent and its outputs absent, and rolls back the last one applied *)

\* The ledgers the first transaction is applied to: filled by earlier calls.
Ledgers == UNION {[keys -> {-1, 0}] : keys \in SUBSET Slips}

BlockTxs ==
    {TransactionNew(1000, io[1], io[2], <<>>, "Normal", ZeroSignature) :
        io \in {p \in SeqsUpTo(Slips, MaxBlockSlips) \X SeqsUpTo(Slips, MaxBlockSlips) :
                    Len(p[1]) + Len(p[2]) \in 1..MaxBlockSlips}}

BlocksInit ==
    /\ origin \in Ledgers
    /\ utxo_hashmap = origin
    /\ applied = <<>>
    /\ before = origin
    /\ last = Call("filled", NoTx, NoSlip, 0, None)
    /\ seq = 0
    /\ touched = DOMAIN origin

\* What the caller checks before it applies t: every input is unspent, every
\* output absent, and no slip is both.
CanApply(m, t) ==
    /\ \A i \in Range(t.inputs) : slip_block_id(m, i) = Some(-1)
    /\ \A o \in Range(t.outputs) : slip_block_id(m, o) = None
    /\ Range(t.inputs) \cap Range(t.outputs) = {}

\* The number of slips of the transactions applied, each of which has one.
RECURSIVE SlipsApplied(_)
SlipsApplied(stack) ==
    IF stack = <<>> THEN 0
    ELSE Len(Head(stack).tx.inputs) + Len(Head(stack).tx.outputs) + SlipsApplied(Tail(stack))

\* insert_new_transaction(t) then spend_transaction(t, block_id)
ApplyTransaction ==
    \E t \in BlockTxs :
        /\ SlipsApplied(applied) + Len(t.inputs) + Len(t.outputs) <= MaxBlockSlips
        /\ CanApply(utxo_hashmap, t)
        /\ \E block_id \in BlockIds :
               /\ before' = insert_new_transaction(utxo_hashmap, t)
               /\ utxo_hashmap' = spend_transaction(before', t, block_id)
               /\ last' = Call("spend_transaction", t, NoSlip, block_id, None)
               /\ applied' = Append(applied, [tx |-> t, block_id |-> block_id,
                                              ledger_before |-> utxo_hashmap,
                                              ledger_after |-> utxo_hashmap'])
        /\ seq' = 2
        /\ touched' = touched \cup Range(t.inputs) \cup Range(t.outputs)
        /\ UNCHANGED origin

\* unspend_transaction on the transaction applied last
RollbackTransaction ==
    /\ applied # <<>>
    /\ LET t == applied[Len(applied)].tx
       IN  /\ utxo_hashmap' = unspend_transaction(utxo_hashmap, t)
           /\ last' = Call("unspend_transaction", t, NoSlip, 0, None)
           /\ seq' = IF seq = 2 /\ last.tx = t THEN 3 ELSE 0
           /\ touched' = touched \cup Range(t.inputs) \cup Range(t.outputs)
    /\ before' = utxo_hashmap
    /\ applied' = SubSeq(applied, 1, Len(applied) - 1)
    /\ UNCHANGED origin

InitBlocks == BlocksInit /\ TxIdle

NextBlocks ==
    \/ ApplyTransaction /\ UNCHANGED txVars
    \/ RollbackTransaction /\ UNCHANGED txVars

SpecBlocks == InitBlocks /\ [][NextBlocks]_vars

----------------------------------------------------------------------------
(* The ledger under a coordinator: the only call that stores a block id is
   spend_transaction, made in one step with a lookup of every input that found
   it unspent; outputs are registered and transactions and slips unspent freely *)

\* slip_block_id on every input of t returned Some(-1).
InputsUnspent(m, t) == \A i \in Range(t.inputs) : slip_block_id(m, i) = Some(-1)

\* The lookups and spend_transaction, with no other call in between.
CoordinatorSpend ==
    \E t \in LedgerTxs :
        /\ InputsUnspent(utxo_hashmap, t)
        /\ \E block_id \in BlockIds :
               /\ utxo_hashmap' = spend_transaction(utxo_hashmap, t, block_id)
               /\ last' = Call("spend_transaction", t, NoSlip, block_id, None)
        /\ before' = utxo_hashmap
        /\ seq' = IF seq = 1 /\ last.tx = t THEN 2 ELSE 0
        /\ touched' = touched \cup Range(t.inputs) \cup Range(t.outputs)

NextCoordinator ==
    \/ CoordinatorSpend /\ UNCHANGED txVars /\ UNCHANGED blockVars
    \/ InsertNewTransaction /\ UNCHANGED txVars /\ UNCHANGED blockVars
    \/ UnspendTransaction /\ UNCHANGED txVars /\ UNCHANGED blockVars
    \/ UnspendSlip /\ UNCHANGED txVars /\ UNCHANGED blockVars
    \/ SlipBlockId /\ UNCHANGED txVars /\ UNCHANGED blockVars

SpecCoordinator == Init /\ [][NextCoordinator]_vars

----------------------------------------------------------------------------
(* Properties of the ledger, checked under Spec *)

lookup(slip) == slip_block_id(utxo_hashmap, slip)

Inputs(t) == Range(t.inputs)
Outputs(t) == Range(t.outputs)

\* C1, as claimed: after insert_new_transaction(t); spend_transaction(t, b);
\* unspend_transaction(t), every input of t looks up as -1 and every output of t
\* as absent, also when a slip is both an input and an output of t.
C1_RollbackAllInputsUnspent ==
    seq = 3 =>
        /\ \A i \in Inputs(last.tx) : lookup(i) = Some(-1)
        /\ \A o \in Outputs(last.tx) : lookup(o) = None

\* C1, amended: after the same three calls every output of t looks up as absent,
\* and every input of t that is not also an output of t looks up as -1.
C1_RollbackInputsNotOutputsUnspent ==
    seq = 3 =>
        /\ \A i \in Inputs(last.tx) \ Outputs(last.tx) : lookup(i) = Some(-1)
        /\ \A o \in Outputs(last.tx) : lookup(o) = None

\* C1 witness: the three calls were made on a transaction with a slip that is an
\* input and an output, and an input that is no output.
C1_Witness ==
    /\ seq = 3
    /\ Inputs(last.tx) \cap Outputs(last.tx) # {}
    /\ Inputs(last.tx) \ Outputs(last.tx) # {}

\* C4, as claimed: after insert(slip, b), spend_transaction(t, b) or
\* spend_slip(slip, b) the stored value is non-negative and equals b, and every
\* value held in the map is -1 or non-negative.
C4_SentinelNeverCollides ==
    /\ last.op \in {"insert", "spend_slip"} =>
           /\ utxo_hashmap[last.slip] >= 0
           /\ utxo_hashmap[last.slip] = last.id
    /\ last.op = "spend_transaction" =>
           \A i \in Inputs(last.tx) : utxo_hashmap[i] >= 0 /\ utxo_hashmap[i] = last.id
    /\ \A slip \in DOMAIN utxo_hashmap :
           utxo_hashmap[slip] = -1 \/ utxo_hashmap[slip] >= 0

\* C7, as claimed: after spend_transaction(t, b) every input of t looks up as b,
\* whatever it held before.
C7_SpendSetsBlockId ==
    last.op = "spend_transaction" =>
        \A i \in Inputs(last.tx) : lookup(i) = Some(last.id)

\* C8: after insert_new_transaction(t) every output of t looks up as -1, whatever
\* it held before.
C8_RegisterSetsUnspent ==
    last.op = "insert_new_transaction" =>
        \A o \in Outputs(last.tx) : lookup(o) = Some(-1)

\* C8 witness: insert_new_transaction was called with an output that the map held
\* as spent at a block id, and with one it did not hold.
C8_Witness ==
    /\ last.op = "insert_new_transaction"
    /\ \E o \in Outputs(last.tx) : o \in DOMAIN before /\ before[o] >= 0
    /\ \E o \in Outputs(last.tx) : o \notin DOMAIN before

\* C9: a slip that was never the key of insert, spend_slip or unspend_slip and
\* never among the inputs or outputs of a transaction passed to the ledger looks
\* up as absent, not as -1.
C9_NeverRegisteredIsAbsent ==
    \A slip \in Slips \ touched :
        /\ lookup(slip) = None
        /\ lookup(slip) # Some(-1)
        /\ (last.op = "slip_block_id" /\ last.slip = slip) => last.ret = None

\* C9 witness: slip_block_id was called on a slip never registered, while the map
\* holds another slip as unspent.
C9_Witness ==
    /\ last.op = "slip_block_id"
    /\ last.slip \notin touched
    /\ last.ret = None
    /\ \E other \in touched : lookup(other) = Some(-1)

----------------------------------------------------------------------------
(* Properties of the transaction record, checked under SpecTx *)

\* The fields the signature is made over.
Content(t) == <<t.timestamp, t.inputs, t.outputs, t.transaction_type, t.message>>

\* Verify(Hash(serialize_for_signature()), signature, pk) for the record t
SignatureVerifies(t) ==
    verify(hash(serialize_for_signature(t)), t.signature,
           IF t.inputs # <<>> THEN t.inputs[1].publickey ELSE ZeroPublicKey)

AllValid(slips) == \A k \in 1..Len(slips) : slip_validate(slips[k])

\* C2, as claimed: a record that carries the signature of a signed record that
\* validates, and differs from it in timestamp, inputs, outputs, type or message,
\* does not validate.
C2_TamperSensitivity ==
    (/\ signed # NoRecord
     /\ validate(signed).ret
     /\ tx.signature = signed.signature
     /\ Content(tx) # Content(signed))
    => ~validate(tx).ret

\* C3, as claimed: validate returns true only if every input and every output
\* passes its own validity check.
C3_ValidImpliesInputsAndOutputsValid ==
    validate(tx).ret => AllValid(tx.inputs) /\ AllValid(tx.outputs)

\* C3, amended: validate returns true only if every input passes its own validity
\* check; the outputs are not checked.
C3_ValidImpliesInputsValid ==
    /\ validate(tx).ret => AllValid(tx.inputs)
    /\ result = {TRUE} => AllValid(tx.inputs)

\* C3 witness: validate returned true on a record that has an input and an output
\* failing its own validity check.
C3_Witness ==
    /\ result = {TRUE}
    /\ tx.inputs # <<>>
    /\ ~AllValid(tx.outputs)

\* C5: a record with at least one input, signed with a private key whose public
\* key the first input holds, every input valid and no field changed since the
\* sign, validates: validate(tx) is true, and so is every result returned.
C5_SignValidateRoundTrip ==
    (/\ signed # NoRecord
     /\ tx = signed
     /\ Len(tx.inputs) >= 1
     /\ tx.inputs[1].publickey = PublicKeyOf(signed_key)
     /\ AllValid(tx.inputs))
    => /\ validate(tx).ret
       /\ result \in {NoResult, {TRUE}}

\* C5 witness: validate was called on such a record, which has two inputs, and
\* returned true.
C5_Witness ==
    /\ signed # NoRecord
    /\ tx = signed
    /\ Len(tx.inputs) >= 2
    /\ tx.inputs[1].publickey = PublicKeyOf(signed_key)
    /\ AllValid(tx.inputs)
    /\ result = {TRUE}

\* C6: validate returns Verify(...) /\ (every input is valid); when Verify fails
\* it calls no input's validity check; it never panics; and a call returns that
\* value.
C6_ValidateIsConjunction ==
    /\ validate(tx).ret = (SignatureVerifies(tx) /\ AllValid(tx.inputs))
    /\ ~SignatureVerifies(tx) => validate(tx).consulted = 0
    /\ ~validate(tx).panicked
    /\ result # NoResult => result = {SignatureVerifies(tx) /\ AllValid(tx.inputs)}

\* C6 witness: validate returned false on a record whose signature verifies and
\* whose second input fails its validity check.
C6_Witness ==
    /\ result = {FALSE}
    /\ SignatureVerifies(tx)
    /\ Len(tx.inputs) >= 2
    /\ slip_validate(tx.inputs[1])
    /\ ~slip_validate(tx.inputs[2])

\* Values the cached hash can hold: zero, the hash cached by the last sign, the
\* hash of the current fields, the hash of no fields.
CachedHashes ==
    {ZeroHash, signed.hash_for_signature, hash(serialize_for_signature(tx)), hash(<<>>)}

\* C10: validate returns the same on records that differ only in the cached hash.
C10_ValidateIgnoresCachedHash ==
    \A h \in CachedHashes :
        validate(set_hash_for_signature(tx, h)).ret = validate(tx).ret

\* C10 witness: validate returned true on a signed record whose cached hash was
\* then set to another value than the hash of its fields.
C10_Witness ==
    /\ result = {TRUE}
    /\ signed # NoRecord
    /\ tx.hash_for_signature # hash(serialize_for_signature(tx))

----------------------------------------------------------------------------
(* Properties of the signature encoding, checked under SpecEnc *)

\* The number of bytes of a slip's encoding.
SlipBytes == Len(slip_serialize_for_signature(CHOOSE slip \in Slips : TRUE))

\* The number whose big-endian digits, base 256, are the bytes.
RECURSIVE BigEndianValue(_)
BigEndianValue(bytes) ==
    IF bytes = <<>> THEN 0
    ELSE BigEndianValue(SubSeq(bytes, 1, Len(bytes) - 1)) * 256 + bytes[Len(bytes)]

\* bytes is laid out as: 8 bytes of timestamp, big-endian; the encoding of each
\* input, then of each output, in list order; 4 bytes of type ordinal, big-endian;
\* the message and nothing after it.
EncodingLayout(t, bytes) ==
    LET ni == Len(t.inputs)
        no == Len(t.outputs)
        inputsAt == 8
        outputsAt == inputsAt + SlipBytes * ni
        typeAt == outputsAt + SlipBytes * no
        messageAt == typeAt + 4
    IN  /\ Len(bytes) = messageAt + Len(t.message)
        /\ \A k \in 1..Len(bytes) : bytes[k] \in 0..255
        /\ BigEndianValue(SubSeq(bytes, 1, 8)) = t.timestamp
        /\ \A k \in 1..ni :
               SubSeq(bytes, inputsAt + SlipBytes * (k - 1) + 1, inputsAt + SlipBytes * k)
                   = slip_serialize_for_signature(t.inputs[k])
        /\ \A k \in 1..no :
               SubSeq(bytes, outputsAt + SlipBytes * (k - 1) + 1, outputsAt + SlipBytes * k)
                   = slip_serialize_for_signature(t.outputs[k])
        /\ BigEndianValue(SubSeq(bytes, typeAt + 1, typeAt + 4))
               = TypeOrdinal(t.transaction_type)
        /\ SubSeq(bytes, messageAt + 1, Len(bytes)) = t.message

\* The record with the zero signature and the zero cached hash.
Unsigned(t) == set_hash_for_signature(set_signature(t, ZeroSignature), ZeroHash)

\* C11: serialize_for_signature is the timestamp (8 bytes, big-endian), the inputs'
\* encodings, the outputs' encodings, the type ordinal (4 bytes, big-endian) and the
\* raw message, in this order; and it is the same bytes whatever the signature and
\* the cached hash are, so set_signature, set_hash_for_signature and sign leave it
\* byte-identical.
C11_EncodingLayoutAndIndependence ==
    LET bytes == serialize_for_signature(tx)
    IN  /\ EncodingLayout(tx, bytes)
        /\ tx.timestamp = 1000 => SubSeq(bytes, 1, 8) = <<0, 0, 0, 0, 0, 0, 3, 232>>
        /\ serialize_for_signature(Unsigned(tx)) = bytes
        /\ \A sk \in PrivateKeys :
               serialize_for_signature(transaction_sign(tx, sk)) = bytes
        /\ (signed # NoRecord /\ Content(tx) = Content(signed)) =>
               serialize_for_signature(signed) = bytes

\* C11 witness: a record with two different inputs, an output and a message was
\* signed, and its signature was then replaced, the content left as signed.
C11_Witness ==
    /\ signed # NoRecord
    /\ Content(tx) = Content(signed)
    /\ tx.signature # signed.signature
    /\ Len(tx.inputs) = 2
    /\ tx.inputs[1] # tx.inputs[2]
    /\ Len(tx.outputs) = 1
    /\ tx.message # <<>>

\* The ways of reordering a list of n elements.
Reorderings(n) == {p \in [1..n -> 1..n] : \A j, k \in 1..n : p[j] = p[k] => j = k}

Reorder(q, p) == [k \in 1..Len(q) |-> q[p[k]]]

\* C12: serialize_for_signature gives the same bytes when called again on a record
\* no field of which was changed in between (the digest of the bytes validate
\* encodes is the digest sign cached), and other bytes on the record with its
\* inputs reordered into a different list.
C12_EncodingDeterminismAndOrder ==
    /\ (signed # NoRecord /\ tx = signed) =>
           hash(serialize_for_signature(tx)) = signed.hash_for_signature
    /\ Len(tx.inputs) >= 2 =>
           LET bytes == serialize_for_signature(tx)
           IN  \A p \in Reorderings(Len(tx.inputs)) :
                   Reorder(tx.inputs, p) # tx.inputs =>
                       serialize_for_signature([tx EXCEPT !.inputs = Reorder(tx.inputs, p)])
                           # bytes

\* C12 witness: a record with two different inputs was signed and, no field
\* changed, validate was called on it: both encode the record.
C12_Witness ==
    /\ result # NoResult
    /\ tx = signed
    /\ Len(tx.inputs) = 2
    /\ tx.inputs[1] # tx.inputs[2]

----------------------------------------------------------------------------
(* The frame of sign, validate and serialize_for_signature *)

\* C13: a call of sign leaves timestamp, inputs, outputs, message and type as they
\* were, stores the hash of the encoding of the record as it was before the call
\* and the signature made over that hash by the private key given; a call of
\* validate changes no field of the record.
C13_SignFrame ==
    [][/\ Sign =>
              /\ Content(tx') = Content(tx)
              /\ tx'.hash_for_signature = hash(serialize_for_signature(tx))
              /\ tx'.signature = sign(hash(serialize_for_signature(tx)), signed_key')
       /\ result' # NoResult => tx' = tx]_vars

\* C13 witness: a record with an input, an output and a message, which carried
\* the zero signature and the zero hash, was signed.
C13_Witness ==
    /\ signed # NoRecord
    /\ tx = signed
    /\ tx.inputs # <<>>
    /\ tx.outputs # <<>>
    /\ tx.message # <<>>

----------------------------------------------------------------------------
(* Further properties of the ledger, checked under Spec *)

\* The transaction whose only slip is the input r.
OneInput(r) == TransactionNew(1000, <<r>>, <<>>, <<>>, "Normal", ZeroSignature)

\* C14: on every ledger, spend_slip(r, b) gives the ledger spend_transaction(t, b)
\* gives and unspend_slip(r) the ledger unspend_transaction(t) gives, for t with
\* the one input r and no output; unspend_slip on a slip that is no key makes it a
\* key with value -1; and the calls made did so.
C14_SingleSlipIsOneInputBatch ==
    /\ \A r \in Slips :
           /\ \A b \in BlockIds :
                  spend_slip(utxo_hashmap, r, b)
                      = spend_transaction(utxo_hashmap, OneInput(r), b)
           /\ unspend_slip(utxo_hashmap, r) = unspend_transaction(utxo_hashmap, OneInput(r))
           /\ r \notin DOMAIN utxo_hashmap =>
                  slip_block_id(unspend_slip(utxo_hashmap, r), r) = Some(-1)
    /\ last.op = "spend_slip" =>
           utxo_hashmap = spend_transaction(before, OneInput(last.slip), last.id)
    /\ last.op = "unspend_slip" =>
           /\ utxo_hashmap = unspend_transaction(before, OneInput(last.slip))
           /\ lookup(last.slip) = Some(-1)

\* C14 witness: unspend_slip was called on a slip that was no key of a ledger
\* that held another slip as spent.
C14_Witness ==
    /\ last.op = "unspend_slip"
    /\ last.slip \notin DOMAIN before
    /\ \E other \in DOMAIN before : before[other] >= 0

\* C15, as claimed: after insert(ref, a) the slip ref looks up as a, and a further
\* insert(ref, b) leaves ref looking up as b, gives the ledger a single
\* insert(ref, b) gives on the ledger before the first insert, and holds one
\* entry for ref, for every slip and block ids a and b.
C15_InsertLastWriteWins ==
    last.op = "insert" =>
        /\ lookup(last.slip) = Some(last.id)
        /\ \A b \in BlockIds :
               LET twice == insert(utxo_hashmap, last.slip, b)
               IN  /\ slip_block_id(twice, last.slip) = Some(b)
                   /\ twice = insert(before, last.slip, b)
                   /\ DOMAIN twice = DOMAIN before \cup {last.slip}

----------------------------------------------------------------------------
(* Properties of blocks applied and rolled back, checked under SpecBlocks *)

\* C16: while transactions are applied, each on a ledger where its inputs are
\* unspent, its outputs absent and no slip both, and rolled back last first, the
\* ledger is the one the last transaction still applied left, and once all are
\* rolled back it is the ledger as it was before the first was applied.
C16_RollbackRestores ==
    /\ applied = <<>> => utxo_hashmap = origin
    /\ applied # <<>> => utxo_hashmap = applied[Len(applied)].ledger_after

\* C16 witness: a transaction with an input and an output was applied, another
\* transaction was applied that spends its output, and that one was rolled back.
C16_Witness ==
    /\ Len(applied) = 1
    /\ applied[1].tx.inputs # <<>>
    /\ applied[1].tx.outputs # <<>>
    /\ last.op = "unspend_transaction"
    /\ Range(last.tx.inputs) \cap Range(applied[1].tx.outputs) # {}

----------------------------------------------------------------------------
(* Properties of the ledger under a coordinator, checked under SpecCoordinator *)

\* C17: when block ids are stored only by a coordinator's spend_transaction, made
\* in one step with the lookups that found every input unspent, no call changes
\* the value of a slip from a block id b1 >= 0 to another block id b2 >= 0, and no
\* call leaves a slip that was absent holding a block id.
C17_NoDoubleSpend ==
    \A slip \in Slips :
        /\ ~(/\ slip \in DOMAIN before
             /\ slip \in DOMAIN utxo_hashmap
             /\ before[slip] >= 0
             /\ utxo_hashmap[slip] >= 0
             /\ utxo_hashmap[slip] # before[slip])
        /\ ~(/\ slip \notin DOMAIN before
             /\ slip \in DOMAIN utxo_hashmap
             /\ utxo_hashmap[slip] # -1)

\* C17 witness: the coordinator spent a transaction with two different inputs, both
\* unspent, at block id 0.
C17_Witness ==
    /\ last.op = "spend_transaction"
    /\ Cardinality(Range(last.tx.inputs)) = 2
    /\ last.id = 0
    /\ \A i \in Range(last.tx.inputs) : utxo_hashmap[i] = 0 /\ before[i] = -1

----------------------------------------------------------------------------
(* Absence and the frame of the ledger operations, checked under Spec *)

\* The slips that were keys before the last call and are keys no more.
Vanished == DOMAIN before \ DOMAIN utxo_hashmap

\* C18, as claimed: a slip never registered is absent, and a slip that is a key
\* stays a key whatever call is made: no call leaves a slip absent that held a
\* value before it.
C18_RegisteredNeverAbsent ==
    /\ \A slip \in Slips \ touched : slip \notin DOMAIN utxo_hashmap
    /\ Vanished = {}

\* C18, amended: a slip never registered is absent, and a slip that is a key stays
\* a key until unspend_transaction is called on a transaction that has it among
\* its outputs: that call leaves every output absent, and no other call removes a
\* key.
C18_AbsentUnlessRolledBack ==
    /\ \A slip \in Slips \ touched : slip \notin DOMAIN utxo_hashmap
    /\ last.op # "unspend_transaction" => Vanished = {}
    /\ last.op = "unspend_transaction" =>
           /\ Vanished \subseteq Outputs(last.tx)
           /\ \A o \in Outputs(last.tx) : lookup(o) = None

\* C18 witness: unspend_transaction was called on a transaction with an output
\* that was spent at a block id, and with an input that is no output.
C18_Witness ==
    /\ last.op = "unspend_transaction"
    /\ \E o \in Vanished : before[o] >= 0
    /\ Inputs(last.tx) \ Outputs(last.tx) # {}

\* The slips whose entry (its presence or its value) the last call changed.
Changed ==
    {slip \in DOMAIN before \cup DOMAIN utxo_hashmap :
        \/ slip \notin DOMAIN before
        \/ slip \notin DOMAIN utxo_hashmap
        \/ before[slip] # utxo_hashmap[slip]}

\* The slips whose entry the last call may change.
Frame ==
    CASE last.op \in {"insert", "spend_slip", "unspend_slip"} -> {last.slip}
      [] last.op = "insert_new_transaction" -> Outputs(last.tx)
      [] last.op = "spend_transaction" -> Inputs(last.tx)
      [] last.op = "unspend_transaction" -> Inputs(last.tx) \cup Outputs(last.tx)
      [] OTHER -> {}

\* C19: insert_new_transaction changes only entries of the transaction's outputs,
\* spend_transaction only entries of its inputs, unspend_transaction only entries
\* of its inputs and outputs, insert, spend_slip and unspend_slip only the entry of
\* the slip given, slip_block_id none; every other entry keeps its presence and
\* its value.
C19_LedgerFrame == Changed \subseteq Frame

\* C19 witness: spend_transaction changed the entry of an input and left alone an
\* output of the same transaction that holds another value.
C19_Witness ==
    /\ last.op = "spend_transaction"
    /\ Changed # {}
    /\ \E o \in Outputs(last.tx) \ Inputs(last.tx) :
           o \in DOMAIN utxo_hashmap /\ utxo_hashmap[o] # AsI64(last.id)

====
